---------------------------- MODULE Spec2Model ----------------------------
(***************************************************************************)
(* Model of scraper.py, the cannabis legislation tracker: the relevance    *)
(* classifier, the per-jurisdiction fetcher, the orchestrator, the sort    *)
(* and statistics of generate_html, the per-bill card renderer and main.   *)
(*                                                                         *)
(* A Python str is a sequence of one-character strings, so that lower(),   *)
(* the `in` substring test, slicing, replace() and the lexicographic       *)
(* comparison of sort keys are computed as the code computes them.         *)
(* None is the one-element sequence NONE, which no str equals.             *)
(***************************************************************************)
EXTENDS Naturals, Sequences, FiniteSets

VARIABLES
    api_key,        \* LEGISCAN_API_KEY is set (scraper.py:14)
    jurisdictions,  \* STATES.items(), in iteration order
    pc,             \* position of the single thread of control
    state_idx,      \* index of the jurisdiction fetch_all_bills is at
    search_results, \* search_results.items() of the current jurisdiction
    entry_idx,      \* index of the entry the loop of line 118 is at
    bills,          \* fetch_bills_for_state's bills / its return value
    filtered_count, \* fetch_bills_for_state's filtered_count
    all_bills,      \* fetch_all_bills' all_bills, then main's bills
    log,            \* network calls and sleeps of the current fetch_bills_for_state call
    pause_count,    \* time.sleep(1) calls of fetch_all_bills
    bills_json,     \* <<contents of bills.json>>, NotWritten before it is written
    index_html,     \* <<contents of index.html>>, NotWritten before it is written
    call,           \* the function applied in a single-function specification
    args,           \* its arguments
    result          \* <<its return value>>, NoResult before it returns

vars == <<api_key, jurisdictions, pc, state_idx, search_results, entry_idx,
          bills, filtered_count, all_bills, log, pause_count, bills_json,
          index_html, call, args, result>>

runVars == <<api_key, jurisdictions, pc, state_idx, search_results, entry_idx,
             bills, filtered_count, all_bills, log, pause_count, bills_json,
             index_html>>

callVars == <<call, args, result>>

-----------------------------------------------------------------------------
(* Python values *)

NONE == <<"None">>

\* A file that was not written, a function that has not returned: the empty
\* sequence; otherwise the one-element sequence of the contents or value.
NotWritten == <<>>

NoResult == <<>>

\* bool(x) of a str or None
Truthy(x) == x # NONE /\ x # <<>>

\* a or b
Or(a, b) == IF Truthy(a) THEN a ELSE b

UPPER == <<"A","B","C","D","E","F","G","H","I","J","K","L","M","N","O","P","Q","R","S","T","U","V","W","X","Y","Z">>

LOWER == <<"a","b","c","d","e","f","g","h","i","j","k","l","m","n","o","p","q","r","s","t","u","v","w","x","y","z">>

\* Characters in code point order, for the comparison of str values.
ASCII == <<" ","!","\"","#","$","%","&","'","(",")","*","+",",","-",".","/","0","1","2","3","4","5","6","7","8","9",":",";","<","=",">","?","@","A","B","C","D","E","F","G","H","I","J","K","L","M","N","O","P","Q","R","S","T","U","V","W","X","Y","Z","[","]","^","_","a","b","c","d","e","f","g","h","i","j","k","l","m","n","o","p","q","r","s","t","u","v","w","x","y","z","{","|","}","~">>

\* The code point order of each character, as a table.
ORD_OF == [c \in {ASCII[i] : i \in 1..Len(ASCII)} |->
              CHOOSE i \in 1..Len(ASCII) : ASCII[i] = c]

Ord(c) == ORD_OF[c]

\* The lower-case letter of each upper-case letter.
LOWER_OF == [c \in {UPPER[i] : i \in 1..Len(UPPER)} |->
                LOWER[CHOOSE i \in 1..Len(UPPER) : UPPER[i] = c]]

LowerChar(c) == IF c \in DOMAIN LOWER_OF THEN LOWER_OF[c] ELSE c

\* str.lower()
Lower(s) == [i \in 1..Len(s) |-> LowerChar(s[i])]

\* term in text
In(term, text) ==
    \E i \in 0..Len(text) :
        /\ i + Len(term) <= Len(text)
        /\ \A k \in 1..Len(term) : text[i + k] = term[k]

\* s[:n]
Slice(s, n) == SubSeq(s, 1, IF Len(s) < n THEN Len(s) ELSE n)

\* a < b on str: the first differing character decides, else the shorter is smaller
StrLess(a, b) ==
    \E i \in 1..(Len(b)) :
        /\ \A k \in 1..(i - 1) : k <= Len(a) /\ a[k] = b[k]
        /\ \/ i = Len(a) + 1
           \/ i <= Len(a) /\ Ord(a[i]) < Ord(b[i])

\* c * n
Repeat(c, n) == [i \in 1..n |-> c]

-----------------------------------------------------------------------------
(* Fixed tables *)

\* STATUS_MAP.get(status_code, 'Unknown')
STATUS_MAP(code) ==
    CASE code = 1 -> <<"I","n","t","r","o","d","u","c","e","d">>
      [] code = 2 -> <<"I","n"," ","C","o","m","m","i","t","t","e","e">>
      [] code = 3 -> <<"P","a","s","s","e","d"," ","C","h","a","m","b","e","r">>
      [] code = 4 -> <<"P","a","s","s","e","d"," ","B","o","t","h"," ","C","h","a","m","b","e","r","s">>
      [] code = 5 -> <<"S","e","n","t"," ","t","o"," ","E","x","e","c","u","t","i","v","e">>
      [] code = 6 -> <<"E","n","a","c","t","e","d","/","S","i","g","n","e","d">>
      [] code = 7 -> <<"V","e","t","o","e","d">>
      [] code = 8 -> <<"F","a","i","l","e","d","/","D","e","a","d">>
      [] code = 9 -> <<"O","v","e","r","r","i","d","e"," ","A","t","t","e","m","p","t">>
      [] OTHER -> <<"U","n","k","n","o","w","n">>

\* The first entries of STATES, in the table's order.
STATES == <<
    [code |-> <<"U","S">>, name |-> <<"F","e","d","e","r","a","l">>],
    [code |-> <<"A","L">>, name |-> <<"A","l","a","b","a","m","a">>] >>

ANCHOR_TERMS == << <<"c","a","n","n","a","b","i","s">>, <<"m","a","r","i","j","u","a","n","a">>, <<"m","a","r","i","h","u","a","n","a">> >>

POLICY_TERMS == <<
    <<"b","a","n","k">>, <<"b","a","n","k","i","n","g">>, <<"t","a","x">>, <<"d","e","d","u","c","t","i","o","n">>, <<"2","8","0","e">>, <<"s","a","f","e"," ","b","a","n","k","i","n","g">>,
    <<"c","o","m","m","e","r","c","e">>, <<"i","n","t","e","r","s","t","a","t","e">>, <<"i","m","p","o","r","t">>, <<"e","x","p","o","r","t">>, <<"t","r","a","d","e">>,
    <<"a","d","m","i","n","i","s","t","r","a","t","i","o","n">>, <<"r","e","g","u","l","a","t","i","o","n">>, <<"r","e","g","u","l","a","t","o","r","y">>, <<"r","u","l","e">>, <<"r","u","l","e","m","a","k","i","n","g">>,
    <<"l","i","c","e","n","s","e">>, <<"l","i","c","e","n","s","i","n","g">>, <<"l","i","c","e","n","s","e","e">>, <<"p","e","r","m","i","t">>,
    <<"s","c","h","e","d","u","l","i","n","g">>, <<"s","c","h","e","d","u","l","e"," ","i">>, <<"s","c","h","e","d","u","l","e"," ","i","i">>, <<"s","c","h","e","d","u","l","e"," ","i","i","i">>,
    <<"d","e","c","r","i","m","i","n","a","l","i","z","a","t","i","o","n">>, <<"l","e","g","a","l","i","z","a","t","i","o","n">>, <<"l","e","g","a","l","i","z","e">>,
    <<"m","e","d","i","c","a","l">>, <<"r","e","c","r","e","a","t","i","o","n","a","l">>, <<"a","d","u","l","t","-","u","s","e">>, <<"a","d","u","l","t"," ","u","s","e">>,
    <<"d","i","s","p","e","n","s","a","r","y">>, <<"d","i","s","p","e","n","s","a","r","i","e","s">>, <<"c","u","l","t","i","v","a","t","i","o","n">>, <<"c","u","l","t","i","v","a","t","o","r">>,
    <<"m","a","n","u","f","a","c","t","u","r","e","r">>, <<"m","a","n","u","f","a","c","t","u","r","i","n","g">>, <<"p","r","o","c","e","s","s","o","r">>, <<"r","e","t","a","i","l","e","r">>,
    <<"d","e","l","i","v","e","r","y">>, <<"t","r","a","n","s","p","o","r","t","e","r">>,
    <<"e","n","f","o","r","c","e","m","e","n","t">>, <<"c","o","m","p","l","i","a","n","c","e">>, <<"v","i","o","l","a","t","i","o","n">>, <<"p","e","n","a","l","t","y">>, <<"p","e","n","a","l","t","i","e","s">>,
    <<"b","l","a","c","k"," ","m","a","r","k","e","t">>, <<"g","r","a","y"," ","m","a","r","k","e","t">>, <<"g","r","e","y"," ","m","a","r","k","e","t">>, <<"i","l","l","i","c","i","t">>,
    <<"t","e","s","t","i","n","g">>, <<"t","e","s","t">>, <<"p","o","t","e","n","c","y">>, <<"t","h","c">>, <<"c","b","d">>, <<"c","o","n","t","a","m","i","n","a","n","t">>,
    <<"p","e","s","t","i","c","i","d","e">>, <<"l","a","b">>, <<"l","a","b","o","r","a","t","o","r","y">>,
    <<"e","q","u","i","t","y">>, <<"s","o","c","i","a","l"," ","e","q","u","i","t","y">>, <<"e","x","p","u","n","g","e","m","e","n","t">>, <<"r","e","c","o","r","d">>, <<"c","o","n","v","i","c","t","i","o","n">>,
    <<"t","r","i","b","a","l">>, <<"r","e","s","e","r","v","a","t","i","o","n">>,
    <<"f","u","n","d">>, <<"f","u","n","d","i","n","g">>, <<"g","r","a","n","t">>, <<"a","p","p","r","o","p","r","i","a","t","i","o","n">>, <<"c","a","s","h"," ","f","u","n","d">>,
    <<"r","e","v","e","n","u","e">>, <<"f","e","e">>, <<"f","e","e","s">>,
    <<"p","o","s","s","e","s","s","i","o","n">>, <<"c","o","n","s","u","m","e">>, <<"c","o","n","s","u","m","p","t","i","o","n">>, <<"u","s","e">>, <<"i","m","p","a","i","r","m","e","n","t">>,
    <<"d","u","i">>, <<"d","w","i">>, <<"w","o","r","k","p","l","a","c","e">>,
    <<"h","e","m","p">>, <<"r","e","s","e","a","r","c","h">>, <<"s","t","u","d","y">>, <<"p","i","l","o","t">>, <<"p","r","o","g","r","a","m">> >>

\* Truncation lengths of the normalization.
DESCRIPTION_MAX == 500

SPONSORS_MAX == 5

\* Sponsors shown on a card.
CARD_SPONSORS == 3

-----------------------------------------------------------------------------
(* RelevanceClassifier *)

\* any(term in text for term in terms)
AnyIn(terms, text) == \E k \in 1..Len(terms) : In(terms[k], text)

\* A classifier that forgets to fold the case of the text.
is_relevant_bill_nolower(title, description) ==
    LET text == title \o <<" ">> \o description
    IN  AnyIn(ANCHOR_TERMS, text) /\ AnyIn(POLICY_TERMS, text)

is_relevant_bill(title, description) ==
    LET text == Lower(title \o <<" ">> \o description)
        cannabis_mentioned == AnyIn(ANCHOR_TERMS, text)
    IN  IF ~cannabis_mentioned
        THEN FALSE
        ELSE AnyIn(POLICY_TERMS, text)

-----------------------------------------------------------------------------
(* RecordNormalizer: lines 141-166 of fetch_bills_for_state *)

\* {'name': ..., 'party': ..., 'role': ...} of one provider sponsor
NormalizeSponsor(sponsor) ==
    [name |-> sponsor.name, party |-> sponsor.party, role |-> sponsor.role]

\* A normalizer that stores the description and the sponsors whole.
Normalize_untruncated(bill_info, state_code, state_name) ==
    [id |-> bill_info.bill_id,
     state_code |-> state_code,
     state_name |-> state_name,
     bill_number |-> bill_info.bill_number,
     title |-> bill_info.title,
     description |-> bill_info.description,
     status |-> STATUS_MAP(bill_info.status),
     status_code |-> bill_info.status,
     status_date |-> bill_info.status_date,
     url |-> bill_info.url,
     last_action |-> bill_info.last_action,
     last_action_date |-> bill_info.last_action_date,
     sponsors |-> [i \in 1..Len(bill_info.sponsors) |->
                      NormalizeSponsor(bill_info.sponsors[i])],
     analysis_url |-> NONE]

\* The bill dict built from the detail record bill_info.
Normalize(bill_info, state_code, state_name) ==
    [id |-> bill_info.bill_id,
     state_code |-> state_code,
     state_name |-> state_name,
     bill_number |-> bill_info.bill_number,
     title |-> bill_info.title,
     description |-> Slice(bill_info.description, DESCRIPTION_MAX),
     status |-> STATUS_MAP(bill_info.status),
     status_code |-> bill_info.status,
     status_date |-> bill_info.status_date,
     url |-> bill_info.url,
     last_action |-> bill_info.last_action,
     last_action_date |-> bill_info.last_action_date,
     sponsors |-> LET shown == Slice(bill_info.sponsors, SPONSORS_MAX)
                  IN  [i \in 1..Len(shown) |-> NormalizeSponsor(shown[i])],
     analysis_url |-> NONE]

-----------------------------------------------------------------------------
(* Aggregator: the sort and the statistics of generate_html *)

\* x.get('last_action_date') or x.get('status_date') or ''
SortKey(bill) == Or(Or(bill.last_action_date, bill.status_date), <<>>)

\* Where bill goes in the descending list s: before the first element whose
\* key is smaller, so after every element whose key is greater or equal.
InsertPos(s, bill) ==
    IF \E i \in 1..Len(s) : StrLess(SortKey(s[i]), SortKey(bill))
    THEN CHOOSE i \in 1..Len(s) :
            /\ StrLess(SortKey(s[i]), SortKey(bill))
            /\ \A j \in 1..(i - 1) : ~StrLess(SortKey(s[j]), SortKey(bill))
    ELSE Len(s) + 1

InsertByKey(s, bill) ==
    LET pos == InsertPos(s, bill)
    IN  SubSeq(s, 1, pos - 1) \o <<bill>> \o SubSeq(s, pos, Len(s))

RECURSIVE SortFrom(_, _)
SortFrom(done, rest) ==
    IF rest = <<>> THEN done
    ELSE SortFrom(InsertByKey(done, Head(rest)), Tail(rest))

\* A generate_html without the sort of line 328: the bills stay as collected.
sort_bills_skipped(bill_list) == bill_list

\* A sort that puts the oldest first.
sort_bills_ascending(bill_list) ==
    LET s == SortFrom(<<>>, bill_list)
    IN  [i \in 1..Len(s) |-> s[Len(s) + 1 - i]]

\* bills.sort(key=..., reverse=True): list.sort is stable, and with
\* reverse=True elements with equal keys keep their original order.
sort_bills(bill_list) == SortFrom(<<>>, bill_list)

RESOLVED_TERMS == << <<"e","n","a","c","t","e","d">>, <<"v","e","t","o","e","d">>, <<"f","a","i","l","e","d">>, <<"d","e","a","d">> >>

\* An active test that does not fold the case of the status.
IsActive_nolower(bill) == ~AnyIn(RESOLVED_TERMS, bill.status)

\* not any(term in b['status'].lower() for term in [...])
IsActive(bill) == ~AnyIn(RESOLVED_TERMS, Lower(bill.status))

\* The four statistics of generate_html.
Stats(bill_list) ==
    [total_bills |-> Len(bill_list),
     total_states |-> Cardinality({bill_list[i].state_name : i \in 1..Len(bill_list)}),
     active_count |-> Cardinality({i \in 1..Len(bill_list) : IsActive(bill_list[i])}),
     analyzed_count |->
         Cardinality({i \in 1..Len(bill_list) : Truthy(bill_list[i].analysis_url)})]

-----------------------------------------------------------------------------
(* DocumentRenderer: escape_html, get_status_class, format_date and the card *)

\* s.replace(old, new) for a one-character old, over s[lo..hi]
RECURSIVE ReplaceRange(_, _, _, _, _)
ReplaceRange(s, lo, hi, old, new) ==
    IF lo > hi THEN <<>>
    ELSE IF lo = hi THEN (IF s[lo] = old THEN new ELSE <<s[lo]>>)
    ELSE LET mid == (lo + hi) \div 2
         IN  ReplaceRange(s, lo, mid, old, new) \o ReplaceRange(s, mid + 1, hi, old, new)

Replace(s, old, new) == ReplaceRange(s, 1, Len(s), old, new)

\* An escape that replaces the ampersand last, escaping the entities again.
escape_html_amp_last(text) ==
    IF ~Truthy(text) THEN <<>>
    ELSE Replace(Replace(Replace(Replace(Replace(text,
            "<", <<"&","l","t",";">>),
            ">", <<"&","g","t",";">>),
            "\"", <<"&","q","u","o","t",";">>),
            "'", <<"&","#","3","9",";">>),
            "&", <<"&","a","m","p",";">>)

escape_html(text) ==
    IF ~Truthy(text) THEN <<>>
    ELSE Replace(Replace(Replace(Replace(Replace(text,
            "&", <<"&","a","m","p",";">>),
            "<", <<"&","l","t",";">>),
            ">", <<"&","g","t",";">>),
            "\"", <<"&","q","u","o","t",";">>),
            "'", <<"&","#","3","9",";">>)

get_status_class(status) ==
    LET status_lower == Lower(status)
    IN  IF In(<<"i","n","t","r","o","d","u","c","e","d">>, status_lower) THEN "status-introduced"
        ELSE IF In(<<"c","o","m","m","i","t","t","e","e">>, status_lower) THEN "status-committee"
        ELSE IF In(<<"p","a","s","s","e","d">>, status_lower) THEN "status-passed"
        ELSE IF In(<<"e","n","a","c","t","e","d">>, status_lower) \/ In(<<"s","i","g","n","e","d">>, status_lower)
             THEN "status-enacted"
        ELSE "status-introduced"

DIGITS == <<"0","1","2","3","4","5","6","7","8","9">>

IsDigit(c) == \E i \in 1..Len(DIGITS) : DIGITS[i] = c

DigitValue(c) == (CHOOSE i \in 1..Len(DIGITS) : DIGITS[i] = c) - 1

TwoDigits(s, i) == 10 * DigitValue(s[i]) + DigitValue(s[i + 1])

MONTH_ABBR == << <<"J","a","n">>, <<"F","e","b">>, <<"M","a","r">>, <<"A","p","r">>, <<"M","a","y">>, <<"J","u","n">>,
                 <<"J","u","l">>, <<"A","u","g">>, <<"S","e","p">>, <<"O","c","t">>, <<"N","o","v">>, <<"D","e","c">> >>

\* datetime.fromisoformat accepts date_str, for the date-only form YYYY-MM-DD
\* with a day every month has; the texts the model draws are of that form or
\* are no ISO date at all.
IsIsoDate(s) ==
    /\ Len(s) = 10
    /\ \A i \in {1, 2, 3, 4, 6, 7, 9, 10} : IsDigit(s[i])
    /\ s[5] = "-" /\ s[8] = "-"
    /\ SubSeq(s, 1, 4) # <<"0","0","0","0">>
    /\ TwoDigits(s, 6) \in 1..12
    /\ TwoDigits(s, 9) \in 1..28

format_date(date_str) ==
    IF ~Truthy(date_str) THEN <<"U","n","k","n","o","w","n">>
    ELSE IF IsIsoDate(date_str)
         THEN MONTH_ABBR[TwoDigits(date_str, 6)] \o <<" ">> \o SubSeq(date_str, 9, 10)
                  \o <<","," ">> \o SubSeq(date_str, 1, 4)
         ELSE date_str

\* The card is the sequence of the parts of its f-string: the template's own
\* text (markup), class names and counts the code computes (computed), and
\* the interpolated values (field), each with the name of the value shown.
Markup(text) == [kind |-> "markup", field |-> "", idx |-> 0, text |-> <<text>>]

Computed(text) == [kind |-> "computed", field |-> "", idx |-> 0, text |-> <<text>>]

Field(name, idx, text) == [kind |-> "field", field |-> name, idx |-> idx, text |-> text]

\* One sponsor tag of lines 259-260.
SponsorTag(sponsor, i) ==
    << Markup("<span class=\"sponsor-tag\">"),
       Field("sponsor_name", i, escape_html(sponsor.name)) >>
    \o (IF Truthy(sponsor.party)
         THEN << Markup(" ("), Field("sponsor_party", i, escape_html(sponsor.party)),
                 Markup(")") >>
         ELSE <<>>)
    \o << Markup("</span>") >>

RECURSIVE SponsorTags(_, _)
SponsorTags(sponsors, i) ==
    IF i > Len(sponsors) THEN <<>>
    ELSE SponsorTag(sponsors[i], i) \o SponsorTags(sponsors, i + 1)

SponsorsHtml(bill) ==
    LET sponsors == Slice(bill.sponsors, CARD_SPONSORS)
        has_more_sponsors == Len(bill.sponsors) > CARD_SPONSORS
    IN  IF sponsors = <<>> THEN <<>>
        ELSE << Markup("<div class=\"bill-sponsors\"><strong>Sponsors:</strong><div class=\"sponsor-list\">") >>
             \o SponsorTags(sponsors, 1)
             \o (IF has_more_sponsors
                  THEN << Markup("<span class=\"sponsor-tag\">+"),
                          Computed(Len(bill.sponsors) - CARD_SPONSORS),
                          Markup(" more</span>") >>
                  ELSE <<>>)
             \o << Markup("</div></div>") >>

AnalysisBtn(bill) ==
    IF Truthy(bill.analysis_url)
    THEN << Markup("<a href=\""), Field("analysis_url", 0, escape_html(bill.analysis_url)),
            Markup("\" target=\"_blank\" rel=\"noopener noreferrer\" class=\"btn btn-analysis\">Read CBDT Analysis</a>") >>
    ELSE << Markup("<span class=\"btn btn-disabled\" title=\"Analysis coming soon\">Analysis Pending</span>") >>

generate_bill_card_html(bill) ==
    LET status_class == get_status_class(bill.status)
        date_to_use == Or(bill.last_action_date, bill.status_date)
        last_action_date == format_date(date_to_use)
        is_federal == bill.state_code = <<"U","S">>
        state_badge_class == IF is_federal THEN "state-badge-federal"
                             ELSE "state-badge-state"
    IN  << Markup("<article class=\"bill-card\" data-state=\""),
           Field("state_name", 0, escape_html(bill.state_name)),
           Markup("\" data-state-code=\""),
           Field("state_code", 0, escape_html(bill.state_code)),
           Markup("\" data-status=\""),
           Field("status", 0, escape_html(bill.status)),
           Markup("\" data-date=\""),
           Field("date_to_use", 0, escape_html(Or(date_to_use, <<>>))),
           Markup("\"><div class=\"bill-header\"><div class=\"bill-title\"><div class=\"bill-meta-top\"><span class=\"state-badge "),
           Computed(state_badge_class),
           Markup("\">"),
           Field("state_name", 0, escape_html(bill.state_name)),
           Markup("</span><span class=\"bill-number\">"),
           Field("bill_number", 0, escape_html(bill.bill_number)),
           Markup("</span></div><h3>"),
           Field("title", 0, escape_html(bill.title)),
           Markup("</h3></div><div class=\"bill-status "),
           Computed(status_class),
           Markup("\">"),
           Field("status", 0, escape_html(bill.status)),
           Markup("</div></div><p class=\"bill-description\">"),
           Field("description", 0, escape_html(bill.description)),
           Markup("</p><div class=\"bill-meta\"><div class=\"bill-meta-item\"><strong>Last Action:</strong> "),
           Field("last_action_date", 0, escape_html(last_action_date)),
           Markup("</div></div>") >>
        \o SponsorsHtml(bill)
        \o << Markup("<div class=\"bill-actions\"><a href=\""),
               Field("url", 0, escape_html(bill.url)),
               Markup("\" target=\"_blank\" rel=\"noopener noreferrer\" class=\"btn btn-secondary\">View on LegiScan</a>") >>
        \o AnalysisBtn(bill)
        \o << Markup("</div></article>") >>

\* generate_html: sorts the list in place and renders the document, of which
\* the model keeps the sorted list, the statistics and the cards.
generate_html(bill_list) ==
    LET sorted == sort_bills(bill_list)
    IN  [bills |-> sorted,
         stats |-> Stats(sorted),
         bill_cards_html |-> [i \in 1..Len(sorted) |-> generate_bill_card_html(sorted[i])]]

-----------------------------------------------------------------------------
(* The provider: what getSearch and getBill can answer *)

\* Most real hits one search answer holds.
MaxHits == 2

Sponsor(name, party) == [name |-> name, party |-> party, role |-> <<"R","e","p">>]

\* The bill_id values of the detail records the provider holds.
BILL_IDS == {1, 2, 3, 4}

\* getBill's 'bill' for bill_id id.

BillDetail(id) ==
    CASE id = 1 ->
           [bill_id |-> 1, bill_number |-> <<"H","B"," ","1","2">>,
            title |-> <<"C","a","n","n","a","b","i","s"," ","T","a","x"," ","R","e","f","o","r","m"," ","A","c","t">>,
            description |-> <<"R","e","l","a","t","e","s"," ","t","o"," ","l","i","c","e","n","s","i","n","g">>,
            status |-> 2, status_date |-> <<"2","0","2","5","-","0","2","-","0","1">>,
            url |-> <<"h","t","t","p","s",":","/","/","l","e","g","i","s","c","a","n",".","c","o","m","/","b","/","1">>,
            last_action |-> <<"R","e","f","e","r","r","e","d">>, last_action_date |-> <<"2","0","2","5","-","0","3","-","0","1">>,
            sponsors |-> << Sponsor(<<"A","n","n"," ","O","'","N","e","i","l">>, <<"D">>) >>]
      [] id = 2 ->
           \* the anchor term starts after the 495th character of the description
           [bill_id |-> 2, bill_number |-> <<"S","B"," ","7">>,
            title |-> <<"T","a","x"," ","S","t","u","d","y"," ","&"," ","R","e","p","o","r","t">>,
            description |-> Repeat("x", 495) \o <<" ","c","a","n","n","a","b","i","s"," ","h","e","m","p">>,
            status |-> 6, status_date |-> <<"2","0","2","5","-","0","4","-","1","0">>,
            url |-> <<"h","t","t","p","s",":","/","/","l","e","g","i","s","c","a","n",".","c","o","m","/","b","/","2">>,
            last_action |-> <<"S","i","g","n","e","d">>, last_action_date |-> NONE,
            sponsors |-> << Sponsor(<<"A">>, <<"R">>), Sponsor(<<"B">>, <<>>),
                            Sponsor(<<"C">>, <<"D">>), Sponsor(<<"D">>, <<"R">>),
                            Sponsor(<<"E">>, <<"I">>), Sponsor(<<"F">>, <<"D">>) >>]
      [] id = 3 ->
           \* an anchor term and no policy term
           [bill_id |-> 3, bill_number |-> <<"H","R"," ","3">>,
            title |-> <<"M","a","r","i","j","u","a","n","a"," ","A","w","a","r","e","n","e","s","s"," ","D","a","y">>,
            description |-> <<>>,
            status |-> 1, status_date |-> <<"2","0","2","5","-","0","1","-","1","5">>,
            url |-> <<"h","t","t","p","s",":","/","/","l","e","g","i","s","c","a","n",".","c","o","m","/","b","/","3">>,
            last_action |-> <<"I","n","t","r","o","d","u","c","e","d">>, last_action_date |-> <<"2","0","2","5","-","0","1","-","1","5">>,
            sponsors |-> <<>>]
      [] OTHER ->
           \* no anchor term: empty title and description
           [bill_id |-> 4, bill_number |-> <<"H","B"," ","4">>,
            title |-> <<>>,
            description |-> <<>>,
            status |-> 0, status_date |-> NONE,
            url |-> <<"h","t","t","p","s",":","/","/","l","e","g","i","s","c","a","n",".","c","o","m","/","b","/","4">>,
            last_action |-> <<>>, last_action_date |-> NONE,
            sponsors |-> <<>>]

\* Keys of the real hits of a search answer, in the provider's order.
HIT_KEYS == <<"0", "1", "2", "3", "4", "5">>

SummaryEntry(count) == [key |-> "summary", bill_id |-> 0, count |-> count]

HitEntry(i, id) == [key |-> HIT_KEYS[i], bill_id |-> id, count |-> 0]

\* The real hits of a search answer: up to MaxHits distinct bills.
HitLists ==
    {h \in UNION {[1..n -> BILL_IDS] : n \in 1..MaxHits} :
        \A i, j \in 1..Len(h) : i # j => h[i] # h[j]}

\* searchresult.items(): the hits and the summary entry, which the provider
\* puts first or last; its count is the number of hits.
SearchResultItems(h, summary_first) ==
    LET hits == [i \in 1..Len(h) |-> HitEntry(i, h[i])]
    IN  IF summary_first THEN <<SummaryEntry(Len(h))>> \o hits
        ELSE hits \o <<SummaryEntry(Len(h))>>

\* search_results.get('summary', {}).get('count', 0)
SummaryCount(items) ==
    IF \E i \in 1..Len(items) : items[i].key = "summary"
    THEN items[CHOOSE i \in 1..Len(items) : items[i].key = "summary"].count
    ELSE 0

\* The provider's detail records, by bill_id.
DETAILS == [id \in BILL_IDS |-> BillDetail(id)]

\* The classifier's verdict on each detail record: is_relevant_bill(title,
\* description) of line 137, computed once for each record.
DetailIsRelevant ==
    [id \in BILL_IDS |-> is_relevant_bill(DETAILS[id].title, DETAILS[id].description)]

Event(op, id, outcome) == [op |-> op, id |-> id, outcome |-> outcome]

-----------------------------------------------------------------------------
(* The run: main, fetch_all_bills and fetch_bills_for_state *)

\* The jurisdiction lists of the runs: the entries of STATES, any of them,
\* in the table's order.
JurisdictionLists ==
    {j \in UNION {[1..n -> 1..Len(STATES)] : n \in 0..Len(STATES)} :
        \A a, b \in 1..Len(j) : a < b => j[a] < j[b]}

Init ==
    /\ api_key \in BOOLEAN
    /\ \E j \in JurisdictionLists : jurisdictions = [i \in 1..Len(j) |-> STATES[j[i]]]
    /\ pc = "fetch_all_bills"
    /\ state_idx = 0
    /\ search_results = <<>>
    /\ entry_idx = 0
    /\ bills = <<>>
    /\ filtered_count = 0
    /\ all_bills = <<>>
    /\ log = <<>>
    /\ pause_count = 0
    /\ bills_json = NotWritten
    /\ index_html = NotWritten
    /\ call = "main"
    /\ args = <<>>
    /\ result = NoResult

\* fetch_all_bills, lines 187-189: no credential, return [] at once.
FetchAllNoKey ==
    /\ pc = "fetch_all_bills"
    /\ ~api_key
    /\ all_bills' = <<>>
    /\ pc' = "main_check"
    /\ UNCHANGED <<api_key, jurisdictions, state_idx, search_results, entry_idx, bills,
                   filtered_count, log, pause_count, bills_json, index_html, callVars>>

\* A fetch_all_bills that does not look at the credential.
FetchAllBegin_nokeycheck ==
    /\ pc = "fetch_all_bills"
    /\ all_bills' = <<>>
    /\ state_idx' = 1
    /\ pc' = "for_states"
    /\ UNCHANGED <<api_key, jurisdictions, search_results, entry_idx, bills,
                   filtered_count, log, pause_count, bills_json, index_html, callVars>>

\* fetch_all_bills, lines 196-198: all_bills = [] and the loop begins.
FetchAllBegin ==
    /\ pc = "fetch_all_bills"
    /\ api_key
    /\ all_bills' = <<>>
    /\ state_idx' = 1
    /\ pc' = "for_states"
    /\ UNCHANGED <<api_key, jurisdictions, search_results, entry_idx, bills,
                   filtered_count, log, pause_count, bills_json, index_html, callVars>>

AtSearch == pc = "for_states" /\ state_idx <= Len(jurisdictions)

\* fetch_bills_for_state returns [] before the loop over the hits.
ReturnEmpty(outcome) ==
    /\ log' = <<Event("getSearch", 0, outcome)>>
    /\ search_results' = <<>>
    /\ entry_idx' = 0
    /\ bills' = <<>>
    /\ filtered_count' = 0
    /\ pc' = "returned"
    /\ UNCHANGED <<api_key, jurisdictions, state_idx, all_bills, pause_count,
                   bills_json, index_html, callVars>>

\* A search whose exception is not caught: the loop over the jurisdictions ends.
SearchException_propagates ==
    /\ AtSearch
    /\ log' = <<Event("getSearch", 0, "exception")>>
    /\ pc' = "main_check"
    /\ UNCHANGED <<api_key, jurisdictions, state_idx, search_results, entry_idx, bills,
                   filtered_count, all_bills, pause_count, bills_json, index_html,
                   callVars>>

\* requests.get or response.json() raises: lines 181-183.
SearchException == AtSearch /\ ReturnEmpty("exception")

\* A search whose non-success status ends the loop over the jurisdictions.
SearchHttpError_stops ==
    /\ AtSearch
    /\ log' = <<Event("getSearch", 0, "http_error")>>
    /\ pc' = "main_check"
    /\ UNCHANGED <<api_key, jurisdictions, state_idx, search_results, entry_idx, bills,
                   filtered_count, all_bills, pause_count, bills_json, index_html,
                   callVars>>

\* response.status_code != 200: lines 99-101.
SearchHttpError == AtSearch /\ ReturnEmpty("http_error")

\* data.get('status') != 'OK': lines 105-107.
SearchApiError == AtSearch /\ ReturnEmpty("api_error")

\* No searchresult, or a summary count of 0: lines 111-113.
SearchNoResults ==
    /\ AtSearch
    /\ \E items \in {<<>>, <<SummaryEntry(0)>>} :
          /\ items = <<>> \/ SummaryCount(items) = 0
          /\ ReturnEmpty("no_results")

\* The search succeeds with hits: lines 109-116.
SearchOk ==
    /\ AtSearch
    /\ \E h \in HitLists, summary_first \in BOOLEAN :
          LET items == SearchResultItems(h, summary_first)
          IN  /\ ~(items = <<>> \/ SummaryCount(items) = 0)
              /\ search_results' = items
    /\ log' = <<Event("getSearch", 0, "ok")>>
    /\ entry_idx' = 1
    /\ bills' = <<>>
    /\ filtered_count' = 0
    /\ pc' = "for_hits"
    /\ UNCHANGED <<api_key, jurisdictions, state_idx, all_bills, pause_count,
                   bills_json, index_html, callVars>>

AtEntry == pc = "for_hits" /\ entry_idx <= Len(search_results)

AtHit == AtEntry /\ search_results[entry_idx].key # "summary"

\* The hit the loop is at, and the detail record the provider holds for it.
HitId == search_results[entry_idx].bill_id

bill_info == DETAILS[HitId]

\* The loop goes on to the next entry; the rest of the run's state is as it was.
NextEntry ==
    /\ entry_idx' = entry_idx + 1
    /\ UNCHANGED <<api_key, jurisdictions, pc, state_idx, search_results, all_bills,
                   pause_count, bills_json, index_html, callVars>>

\* time.sleep(0.5) of line 170
Sleep == Event("sleep", 0, "0.5")

\* A loop that asks the provider for the detail of the summary entry too.
SkipSummary_requests ==
    /\ AtEntry
    /\ search_results[entry_idx].key = "summary"
    /\ log' = log \o <<Event("getBill", HitId, "api_error"), Sleep>>
    /\ NextEntry
    /\ UNCHANGED <<bills, filtered_count>>

\* The summary entry is passed over: lines 119-120.
SkipSummary ==
    /\ AtEntry
    /\ search_results[entry_idx].key = "summary"
    /\ NextEntry
    /\ UNCHANGED <<bills, filtered_count, log>>

\* A detail request whose exception reaches the handler of line 181: the
\* jurisdiction returns [].
DetailException_aborts ==
    /\ AtHit
    /\ log' = Append(log, Event("getBill", HitId, "exception"))
    /\ bills' = <<>>
    /\ pc' = "returned"
    /\ UNCHANGED <<api_key, jurisdictions, state_idx, search_results, entry_idx,
                   filtered_count, all_bills, pause_count, bills_json, index_html,
                   callVars>>

\* The detail request raises: lines 172-174, no sleep.
DetailException ==
    /\ AtHit
    /\ log' = Append(log, Event("getBill", HitId, "exception"))
    /\ NextEntry
    /\ UNCHANGED <<bills, filtered_count>>

\* bill_response.status_code != 200: line 128, then the sleep of line 170.
DetailHttpError ==
    /\ AtHit
    /\ log' = log \o <<Event("getBill", HitId, "http_error"), Sleep>>
    /\ NextEntry
    /\ UNCHANGED <<bills, filtered_count>>

\* bill_detail.get('status') != 'OK': line 131, then the sleep of line 170.
DetailApiError ==
    /\ AtHit
    /\ log' = log \o <<Event("getBill", HitId, "api_error"), Sleep>>
    /\ NextEntry
    /\ UNCHANGED <<bills, filtered_count>>

\* A filter step that appends the rejected bill all the same.
DetailFiltered_appends ==
    /\ AtHit
    /\ ~DetailIsRelevant[HitId]
    /\ filtered_count' = filtered_count + 1
    /\ bills' = Append(bills, Normalize(bill_info, jurisdictions[state_idx].code,
                                        jurisdictions[state_idx].name))
    /\ log' = Append(log, Event("getBill", HitId, "filtered"))
    /\ NextEntry

\* The classifier rejects the detail: lines 137-139, continue without sleep.
DetailFiltered ==
    /\ AtHit
    /\ ~DetailIsRelevant[HitId]
    /\ filtered_count' = filtered_count + 1
    /\ log' = Append(log, Event("getBill", HitId, "filtered"))
    /\ NextEntry
    /\ UNCHANGED bills

\* The classifier accepts: the bill is built and appended, lines 141-170.
DetailAppended ==
    /\ AtHit
    /\ DetailIsRelevant[HitId]
    /\ bills' = Append(bills, Normalize(bill_info, jurisdictions[state_idx].code,
                                        jurisdictions[state_idx].name))
    /\ log' = log \o <<Event("getBill", HitId, "appended"), Sleep>>
    /\ NextEntry
    /\ UNCHANGED filtered_count

\* The loop is over: return bills, line 179.
FetchReturn ==
    /\ pc = "for_hits"
    /\ entry_idx > Len(search_results)
    /\ pc' = "returned"
    /\ UNCHANGED <<api_key, jurisdictions, state_idx, search_results, entry_idx, bills,
                   filtered_count, all_bills, log, pause_count, bills_json,
                   index_html, callVars>>

\* all_bills.extend(bills); time.sleep(1); next jurisdiction: lines 199-201.
Extend ==
    /\ pc = "returned"
    /\ all_bills' = all_bills \o bills
    /\ pause_count' = pause_count + 1
    /\ state_idx' = state_idx + 1
    /\ pc' = "for_states"
    \* the locals of the fetch_bills_for_state call that returned are gone
    /\ search_results' = <<>>
    /\ entry_idx' = 0
    /\ bills' = <<>>
    /\ filtered_count' = 0
    /\ log' = <<>>
    /\ UNCHANGED <<api_key, jurisdictions, bills_json, index_html, callVars>>

\* The loop over the jurisdictions is over: return all_bills, line 203.
FetchAllReturn ==
    /\ pc = "for_states"
    /\ state_idx > Len(jurisdictions)
    /\ pc' = "main_check"
    /\ UNCHANGED <<api_key, jurisdictions, state_idx, search_results, entry_idx, bills,
                   filtered_count, all_bills, log, pause_count, bills_json,
                   index_html, callVars>>

\* main, lines 617-619: no bills, print the error and return.
MainAbort ==
    /\ pc = "main_check"
    /\ all_bills = <<>>
    /\ pc' = "aborted"
    /\ UNCHANGED <<api_key, jurisdictions, state_idx, search_results, entry_idx, bills,
                   filtered_count, all_bills, log, pause_count, bills_json,
                   index_html, callVars>>

\* A main that writes the backup whatever was fetched.
WriteJson_unchecked ==
    /\ pc = "main_check"
    /\ bills_json' = <<[total_bills |-> Len(all_bills), bills |-> all_bills]>>
    /\ pc' = "generate_html"
    /\ UNCHANGED <<api_key, jurisdictions, state_idx, search_results, entry_idx, bills,
                   filtered_count, all_bills, log, pause_count, index_html, callVars>>

\* main, lines 624-630: bills.json is written, the bills as fetched.
WriteJson ==
    /\ pc = "main_check"
    /\ all_bills # <<>>
    /\ bills_json' = <<[total_bills |-> Len(all_bills), bills |-> all_bills]>>
    /\ pc' = "generate_html"
    /\ UNCHANGED <<api_key, jurisdictions, state_idx, search_results, entry_idx, bills,
                   filtered_count, all_bills, log, pause_count, index_html, callVars>>

\* main, lines 633-637: generate_html sorts bills in place and index.html is
\* written.
WriteHtml ==
    /\ pc = "generate_html"
    /\ LET html == generate_html(all_bills)
       IN  /\ all_bills' = html.bills
           /\ index_html' = <<html>>
    /\ pc' = "done"
    /\ UNCHANGED <<api_key, jurisdictions, state_idx, search_results, entry_idx, bills,
                   filtered_count, log, pause_count, bills_json, callVars>>

Next ==
    \/ FetchAllNoKey
    \/ FetchAllBegin
    \/ SearchException
    \/ SearchHttpError
    \/ SearchApiError
    \/ SearchNoResults
    \/ SearchOk
    \/ SkipSummary
    \/ DetailException
    \/ DetailHttpError
    \/ DetailApiError
    \/ DetailFiltered
    \/ DetailAppended
    \/ FetchReturn
    \/ Extend
    \/ FetchAllReturn
    \/ MainAbort
    \/ WriteJson
    \/ WriteHtml

Spec == Init /\ [][Next]_vars

-----------------------------------------------------------------------------
(* Claims about the run *)

\* Every bill list the run holds or has written.
BillLists ==
    {bills, all_bills}
    \cup {bills_json[i].bills : i \in 1..Len(bills_json)}
    \cup {index_html[i].bills : i \in 1..Len(index_html)}

AllHeldBills == UNION {{l[i] : i \in 1..Len(l)} : l \in BillLists}

\* The last event of the log, when the step added events to it.
Logged(outcome) ==
    /\ Len(log') > Len(log)
    /\ \E i \in (Len(log) + 1)..Len(log') :
          log'[i].op = "getBill" /\ log'[i].outcome = outcome

BuiltFromAcceptedDetail(b) ==
    /\ b.id \in BILL_IDS
    /\ DetailIsRelevant[b.id]
    /\ \E j \in 1..Len(STATES) : b = Normalize(DETAILS[b.id], STATES[j].code, STATES[j].name)

\* C1: every bill the run holds was built from a detail record the classifier
\* accepted, and a step on which the classifier rejects a hit adds exactly 1
\* to filtered_count and leaves the bills list as it was.
C1_OnlyAcceptedBills ==
    /\ [](\A b \in AllHeldBills : BuiltFromAcceptedDetail(b))
    /\ [][Logged("filtered") =>
            /\ ~DetailIsRelevant[HitId]
            /\ filtered_count' = filtered_count + 1
            /\ bills' = bills]_vars

\* C1 witness: a jurisdiction returns with one bill appended and one hit filtered.
C1_Witness ==
    /\ pc = "returned"
    /\ filtered_count = 1
    /\ Len(bills) = 1

FilesUnwritten == bills_json = NotWritten /\ index_html = NotWritten

\* C3: a run whose final collection is empty aborts with no file written;
\* a file that is written holds at least one bill.
C3_EmptyCollectionWritesNothing ==
    /\ pc = "aborted" => all_bills = <<>> /\ FilesUnwritten
    /\ pc \in {"generate_html", "done"} => all_bills # <<>>
    /\ pc \notin {"generate_html", "done"} => FilesUnwritten
    /\ \A i \in 1..Len(bills_json) : bills_json[i].bills # <<>>
    /\ \A i \in 1..Len(index_html) :
          index_html[i].bills # <<>> /\ bills_json # NotWritten

\* C3 witness: with a credential and two jurisdictions, neither of which
\* produced a bill, the run has aborted.
C3_Witness ==
    /\ pc = "aborted"
    /\ api_key
    /\ Len(jurisdictions) = 2
    /\ pause_count = 2

\* C4: without a credential fetch_all_bills returns [] at once: the loop over
\* the jurisdictions is never entered, so no search or detail request is
\* issued and no pause is made.
C4_NoCredentialNoRequest ==
    ~api_key =>
        /\ pc \in {"fetch_all_bills", "main_check", "aborted"}
        /\ state_idx = 0
        /\ log = <<>>
        /\ pause_count = 0
        /\ all_bills = <<>>
        /\ bills = <<>>

\* C4 witness: a run without credential over a non-empty list has returned
\* from fetch_all_bills.
C4_Witness ==
    /\ ~api_key
    /\ jurisdictions # <<>>
    /\ pc = "aborted"

SearchFailures == {"exception", "http_error", "api_error"}

SearchFailed == log # <<>> /\ log[1].op = "getSearch" /\ log[1].outcome \in SearchFailures

\* C5: a jurisdiction whose search fails returns [] without a detail request;
\* its return adds nothing to all_bills, which keeps the bills of the earlier
\* jurisdictions, and the loop goes on to the next jurisdiction.
C5_SearchFailureContributesNothing ==
    /\ [](SearchFailed =>
            /\ pc = "returned"
            /\ Len(log) = 1
            /\ bills = <<>>)
    /\ [][(SearchFailed' /\ ~SearchFailed) =>
            /\ AtSearch
            /\ all_bills' = all_bills
            /\ state_idx' = state_idx]_vars
    /\ [][SearchFailed =>
            /\ all_bills' = all_bills
            /\ state_idx' = state_idx + 1
            /\ pause_count' = pause_count + 1
            /\ pc' = "for_states"
            /\ bills' = <<>> /\ log' = <<>>]_vars

\* C5 witness: the search of the second jurisdiction failed with a non-success
\* status after the first jurisdiction produced a bill.
C5_Witness ==
    /\ SearchFailed
    /\ log[1].outcome = "http_error"
    /\ state_idx = 2
    /\ all_bills # <<>>

IsGetBill(e) == e.op = "getBill"

IsAppended(e) == e.op = "getBill" /\ e.outcome = "appended"

IsHit(entry) == entry.key # "summary"

DetailFailures == {"exception", "http_error", "api_error"}

\* C6: a detail request that fails changes neither bills nor filtered_count
\* and the loop goes on with the next entry; so when the jurisdiction returns,
\* one detail request was made for every hit, in order, every request that
\* succeeded on an accepted record appended its bill, and bills holds exactly
\* those bills, in order.
C6_DetailFailureSkipsOneHit ==
    /\ [][(\E o \in DetailFailures : Logged(o)) =>
            /\ bills' = bills
            /\ filtered_count' = filtered_count
            /\ all_bills' = all_bills
            /\ entry_idx' = entry_idx + 1
            /\ pc' = "for_hits"]_vars
    /\ []((pc = "returned" /\ ~SearchFailed /\ search_results # <<>>) =>
            LET gets == SelectSeq(log, IsGetBill)
                hits == SelectSeq(search_results, IsHit)
                appended == SelectSeq(log, IsAppended)
            IN  /\ Len(gets) = Len(hits)
                /\ \A i \in 1..Len(gets) :
                      /\ gets[i].id = hits[i].bill_id
                      /\ (gets[i].outcome \notin DetailFailures /\ DetailIsRelevant[gets[i].id])
                            => gets[i].outcome = "appended"
                /\ Len(bills) = Len(appended)
                /\ \A i \in 1..Len(bills) : bills[i].id = appended[i].id)

\* C6 witness: of two hits the first raised on its detail request and the
\* second produced a bill.
C6_Witness ==
    /\ pc = "returned"
    /\ Len(bills) = 1
    /\ \E i, j \in 1..Len(log) :
          /\ i < j
          /\ log[i].op = "getBill" /\ log[i].outcome = "exception"
          /\ log[j].op = "getBill" /\ log[j].outcome = "appended"

Min(a, b) == IF a < b THEN a ELSE b

\* C9: every bill the run holds stores the first 500 characters of its detail
\* record's description, nothing added, and its first 5 sponsors, in order.
C9_TruncatedDescriptionAndSponsors ==
    \A b \in AllHeldBills :
        LET raw == DETAILS[b.id]
        IN  /\ Len(b.description) = Min(Len(raw.description), 500)
            /\ \A k \in 1..Len(b.description) : b.description[k] = raw.description[k]
            /\ Len(b.sponsors) = Min(Len(raw.sponsors), 5)
            /\ \A k \in 1..Len(b.sponsors) :
                  /\ b.sponsors[k].name = raw.sponsors[k].name
                  /\ b.sponsors[k].party = raw.sponsors[k].party
                  /\ b.sponsors[k].role = raw.sponsors[k].role

\* C9 witness: the document holds a bill whose description and sponsors were
\* both cut, to 500 characters and to 5 sponsors.
C9_Witness ==
    /\ pc = "done"
    /\ \E b \in AllHeldBills :
          /\ Len(b.description) = 500
          /\ Len(DETAILS[b.id].description) > 500
          /\ Len(b.sponsors) = 5
          /\ Len(DETAILS[b.id].sponsors) > 5

\* C11: within one jurisdiction a pause of 0.5 lies between every two
\* consecutive detail requests, whatever the outcome of the earlier one: no
\* getBill call directly follows another getBill call.
C11_PauseBetweenDetailRequests ==
    \A i, j \in 1..Len(log) :
        (j = i + 1 /\ IsGetBill(log[i])) => ~IsGetBill(log[j])

IsGetSearch(e) == e.op = "getSearch"

\* The entries of search_results the loop of line 118 has gone past.
EntriesPassed ==
    IF entry_idx = 0 THEN <<>> ELSE SubSeq(search_results, 1, entry_idx - 1)

FetchNext ==
    \/ FetchAllNoKey
    \/ FetchAllBegin
    \/ SearchException
    \/ SearchHttpError
    \/ SearchApiError
    \/ SearchNoResults
    \/ SearchOk
    \/ SkipSummary
    \/ DetailException
    \/ DetailHttpError
    \/ DetailApiError
    \/ DetailFiltered
    \/ DetailAppended
    \/ FetchReturn
    \/ Extend
    \/ FetchAllReturn

\* The run under the scheduling of the single thread of control: every
\* network call blocks until it returns or fails and every sleep ends, so
\* fetch_all_bills takes its next step whenever it has one.
FairSpec == Spec /\ WF_vars(FetchNext)

Returned == {"main_check", "aborted", "generate_html", "done"}

\* C14: with a credential, fetch_all_bills eventually returns, after one call
\* of fetch_bills_for_state for every jurisdiction of the list and one pause
\* of 1 after each call; the calls are made in the list's order, one
\* jurisdiction at a time, each call makes its search request, what it returns
\* is appended under its own jurisdiction, and no outcome of a search or
\* detail request ends the loop or passes over a jurisdiction.
C14_EveryJurisdictionFetchedOnce ==
    /\ [](api_key =>
            /\ pc = "for_states" => pause_count + 1 = state_idx
            /\ pc \in {"for_hits", "returned"} =>
                  /\ state_idx \in 1..Len(jurisdictions)
                  /\ pause_count + 1 = state_idx
                  /\ Len(SelectSeq(log, IsGetSearch)) = 1
            /\ pc \in Returned =>
                  /\ state_idx = Len(jurisdictions) + 1
                  /\ pause_count = Len(jurisdictions))
    /\ [][api_key =>
            /\ state_idx' # state_idx =>
                  /\ state_idx' = state_idx + 1
                  /\ pc \in {"fetch_all_bills", "returned"}
            /\ (pc = "for_states" /\ pc' # "for_states" /\ pc' \notin Returned) =>
                  /\ state_idx' = state_idx
                  /\ IsGetSearch(log'[1])
            /\ pc = "returned" =>
                  /\ pc' = "for_states"
                  /\ state_idx' = state_idx + 1
                  /\ pause_count' = pause_count + 1
                  /\ Len(all_bills') = Len(all_bills) + Len(bills)
                  /\ \A i \in 1..Len(all_bills') :
                        IF i <= Len(all_bills) THEN all_bills'[i] = all_bills[i]
                        ELSE all_bills'[i].state_code = jurisdictions[state_idx].code
            /\ pause_count' # pause_count => pc = "returned"]_vars
    /\ (api_key /\ pc = "fetch_all_bills") ~>
            (pc = "main_check" /\ state_idx = Len(jurisdictions) + 1
                               /\ pause_count = Len(jurisdictions))

\* C14 witness: fetch_all_bills has returned from a list of two jurisdictions
\* after two pauses; the first jurisdiction contributed nothing and the second
\* contributed a bill.
C14_Witness ==
    /\ api_key
    /\ pc = "main_check"
    /\ Len(jurisdictions) = 2
    /\ state_idx = 3
    /\ pause_count = 2
    /\ all_bills # <<>>
    /\ \A i \in 1..Len(all_bills) : all_bills[i].state_code = jurisdictions[2].code

-----------------------------------------------------------------------------
(* The run is not started in the specifications of a single function. *)

RunIdle ==
    /\ api_key = FALSE
    /\ jurisdictions = <<>>
    /\ pc = "idle"
    /\ state_idx = 0
    /\ search_results = <<>>
    /\ entry_idx = 0
    /\ bills = <<>>
    /\ filtered_count = 0
    /\ all_bills = <<>>
    /\ log = <<>>
    /\ pause_count = 0
    /\ bills_json = NotWritten
    /\ index_html = NotWritten

-----------------------------------------------------------------------------
(* is_relevant_bill applied to every pair of sample texts *)

TEXT_SAMPLES == {
    <<>>, <<"C","a","n","n","a","b","i","s"," ","T","a","x"," ","R","e","f","o","r","m"," ","A","c","t">>, <<"c","a","n","n","a">>, <<"b","i","s"," ","t","a","x">>, <<"M","A","R","I","J","U","A","N","A">>,
    <<"M","a","r","i","h","u","a","n","a"," ","b","l","a","c","k">>, <<"m","a","r","k","e","t">>, <<"L","i","c","e","n","s","i","n","g">>, <<"A","n"," ","a","c","t">>,
    <<"I","n","d","u","s","t","r","i","a","l"," ","H","e","m","p">>, <<"m","a","r","i","j","u","a","n","a">>, <<"T","H","C">> }

ClassifierInit ==
    /\ RunIdle
    /\ call = "is_relevant_bill"
    /\ args \in [title : TEXT_SAMPLES, description : TEXT_SAMPLES]
    /\ result = NoResult

Classify ==
    /\ call = "is_relevant_bill"
    /\ result = NoResult
    /\ result' = <<is_relevant_bill(args.title, args.description)>>
    /\ UNCHANGED <<runVars, call, args>>

ClassifierNext == Classify

SpecClassifier == ClassifierInit /\ [][ClassifierNext]_vars

\* text = before + term + after, for some before and after
Occurs(term, text) ==
    \E n \in 0..Len(text) :
        /\ n + Len(term) <= Len(text)
        /\ SubSeq(text, 1, n) \o term \o SubSeq(text, n + Len(term) + 1, Len(text)) = text

HasAnchor(text) == \E k \in 1..Len(ANCHOR_TERMS) : Occurs(ANCHOR_TERMS[k], text)

HasPolicyTerm(text) == \E k \in 1..Len(POLICY_TERMS) : Occurs(POLICY_TERMS[k], text)

Classified == call = "is_relevant_bill" /\ result # NoResult

\* C2 (as amended): is_relevant_bill(title, description) is true exactly when the
\* lower-cased text title + ' ' + description (the two joined by one space)
\* contains an anchor term and a policy term as substrings.
C2_RelevantIffAnchorAndPolicy ==
    Classified =>
        LET text == Lower(args.title \o <<" ">> \o args.description)
        IN  result[1] = (HasAnchor(text) /\ HasPolicyTerm(text))

\* C2 witness: an accepted pair whose anchor is upper case in the title and
\* whose policy term is in the description.
C2_Witness ==
    /\ Classified
    /\ result[1] = TRUE
    /\ args.title = <<"M","A","R","I","J","U","A","N","A">>
    /\ args.description = <<"L","i","c","e","n","s","i","n","g">>

\* C2 (original): is_relevant_bill is true exactly when the lower-cased plain
\* concatenation title + description contains an anchor term and a policy term.
C2_Original_PlainConcatenation ==
    Classified =>
        LET text == Lower(args.title \o args.description)
        IN  result[1] = (HasAnchor(text) /\ HasPolicyTerm(text))

-----------------------------------------------------------------------------
(* generate_html applied to every short list of sample bills *)

\* Most bills of a list given to generate_html.
MaxBills == 3

\* A normalized bill of jurisdiction STATES[j] with status code status_code,
\* the given dates and analysis link, and one sponsor.
SampleBill(j, status_code, last_action_date, status_date, analysis_url) ==
    [id |-> status_code,
     state_code |-> STATES[j].code,
     state_name |-> STATES[j].name,
     bill_number |-> <<"H","B"," ","1">>,
     title |-> <<"C","a","n","n","a","b","i","s"," ","T","a","x"," ","A","c","t">>,
     description |-> <<"L","i","c","e","n","s","i","n","g">>,
     status |-> STATUS_MAP(status_code),
     status_code |-> status_code,
     status_date |-> status_date,
     url |-> <<"h","t","t","p","s",":","/","/","l","e","g","i","s","c","a","n",".","c","o","m","/","b">>,
     last_action |-> <<"R","e","a","d">>,
     last_action_date |-> last_action_date,
     sponsors |-> << [name |-> <<"A","n","n">>, party |-> <<"D">>, role |-> <<"R","e","p">>] >>,
     analysis_url |-> analysis_url]

\* One bill for each status code 0..9: equal keys from either date field, a
\* key that is a prefix of another, dates that are None or '', and analysis
\* links that are set, None or ''.
BILL_SAMPLES == {
    SampleBill(2, 0, <<"2","0","2","5","-","0","3","-","0","1">>, <<"2","0","2","5","-","0","1","-","0","1">>, NONE),
    SampleBill(1, 1, <<"2","0","2","5","-","0","3","-","0","1">>, <<"2","0","2","5","-","0","2","-","0","1">>, NONE),
    SampleBill(2, 2, <<"2","0","2","5","-","0","3","-","0","1">>, NONE, <<"h","t","t","p","s",":","/","/","c","b","d","t","/","a">>),
    SampleBill(1, 3, NONE, <<"2","0","2","5","-","0","3","-","0","1">>, NONE),
    SampleBill(2, 4, <<>>, <<"2","0","2","4","-","1","2","-","3","1">>, <<>>),
    SampleBill(1, 5, NONE, NONE, NONE),
    SampleBill(2, 6, <<"2","0","2","5","-","0","3","-","1","0">>, <<"2","0","2","5","-","0","3","-","0","9">>, <<"h","t","t","p","s",":","/","/","c","b","d","t","/","b">>),
    SampleBill(1, 7, <<"2","0","2","5","-","0","3","-","1">>, NONE, NONE),
    SampleBill(2, 8, <<>>, <<>>, NONE),
    SampleBill(1, 9, <<"2","0","2","5","-","1","1","-","0","5">>, <<"2","0","2","5","-","1","1","-","0","5">>, NONE) }

BillListsUpTo(n) == UNION {[1..k -> BILL_SAMPLES] : k \in 0..n}

AggregateInit ==
    /\ RunIdle
    /\ call = "generate_html"
    /\ \E l \in BillListsUpTo(MaxBills) : args = [bills |-> l]
    /\ result = NoResult

\* generate_html(bills, last_updated); args keeps the list as it was passed,
\* result holds the list as sorted in place, the statistics and the cards.
Aggregate ==
    /\ call = "generate_html"
    /\ result = NoResult
    /\ result' = <<generate_html(args.bills)>>
    /\ UNCHANGED <<runVars, call, args>>

AggregateNext == Aggregate

SpecAggregate == AggregateInit /\ [][AggregateNext]_vars

Aggregated == call = "generate_html" /\ result # NoResult

\* last_action_date, else status_date, else the empty string
EffectiveDateKey(b) ==
    IF b.last_action_date # NONE /\ b.last_action_date # <<>> THEN b.last_action_date
    ELSE IF b.status_date # NONE /\ b.status_date # <<>> THEN b.status_date
    ELSE <<>>

Permutations(n) == {p \in [1..n -> 1..n] : \A i, j \in 1..n : i # j => p[i] # p[j]}

\* C7: the sorted list is a permutation of the list passed in, every element's
\* effective date key is lexicographically >= that of the next, elements with
\* equal keys are in the order they were passed in, and the bills without a
\* date are last.
C7_SortedStablePermutation ==
    Aggregated =>
        LET input == args.bills
            sorted == result[1].bills
            n == Len(input)
        IN  /\ Len(sorted) = n
            /\ \E p \in Permutations(n) :
                  /\ \A i \in 1..n : sorted[i] = input[p[i]]
                  /\ \A i, j \in 1..n :
                        (i < j /\ EffectiveDateKey(sorted[i]) = EffectiveDateKey(sorted[j]))
                            => p[i] < p[j]
            /\ \A i \in 1..(n - 1) :
                  ~StrLess(EffectiveDateKey(sorted[i]), EffectiveDateKey(sorted[i + 1]))
            /\ \A i, j \in 1..n :
                  (i < j /\ EffectiveDateKey(sorted[i]) = <<>>)
                      => EffectiveDateKey(sorted[j]) = <<>>

\* C7 witness: three bills were sorted, two with equal keys that were passed in
\* after an undated bill, which is now last.
C7_Witness ==
    /\ Aggregated
    /\ Len(args.bills) = 3
    /\ EffectiveDateKey(args.bills[1]) = <<>>
    /\ EffectiveDateKey(args.bills[2]) = <<"2","0","2","5","-","0","3","-","0","1">>
    /\ EffectiveDateKey(args.bills[3]) = <<"2","0","2","5","-","0","3","-","0","1">>
    /\ args.bills[2] # args.bills[3]
    /\ result[1].bills = <<args.bills[2], args.bills[3], args.bills[1]>>

\* The list l collected in another order.
Reordered(l, p) == [i \in 1..Len(l) |-> l[p[i]]]

\* The effective date keys of a list of bills, in the list's order.
KeysOf(l) == [i \in 1..Len(l) |-> EffectiveDateKey(l[i])]

\* The cards of the document are the cards of the sorted bills, in their order.
CardsFollowBills(html) ==
    /\ Len(html.bill_cards_html) = Len(html.bills)
    /\ \A i \in 1..Len(html.bills) :
          html.bill_cards_html[i] = generate_bill_card_html(html.bills[i])

\* C13: the order of the rendered bills is fixed by the sort up to the order
\* of bills with equal effective date keys: the cards follow the sorted list,
\* and the same bills collected in any other order are sorted into the same
\* sequence of date keys, and into the same sequence of bills when no two
\* collected bills share a key.
C13_OrderFixedUpToEqualKeys ==
    Aggregated =>
        LET input == args.bills
            n == Len(input)
            keys == KeysOf(result[1].bills)
            no_equal_keys ==
                \A i, j \in 1..n :
                    i # j => EffectiveDateKey(input[i]) # EffectiveDateKey(input[j])
        IN  /\ CardsFollowBills(result[1])
            /\ \A p \in Permutations(n) :
                  LET other == sort_bills(Reordered(input, p))
                  IN  /\ KeysOf(other) = keys
                      /\ no_equal_keys => other = result[1].bills

\* C13 witness: three bills with three different date keys were collected
\* oldest first and rendered newest first.
C13_Witness ==
    /\ Aggregated
    /\ Len(args.bills) = 3
    /\ StrLess(EffectiveDateKey(args.bills[1]), EffectiveDateKey(args.bills[2]))
    /\ StrLess(EffectiveDateKey(args.bills[2]), EffectiveDateKey(args.bills[3]))
    /\ result[1].bills = <<args.bills[3], args.bills[2], args.bills[1]>>

\* C13 as stated: any two runs that collected the same bills, in whatever
\* order, render the same sequence of bills.
C13_Original_OrderIndependentOfFetchOrder ==
    Aggregated =>
        \A p \in Permutations(Len(args.bills)) :
            sort_bills(Reordered(args.bills, p)) = result[1].bills

RESOLVED_CODES == {6, 7, 8}

\* The status text holds none of the four terms, whatever the case.
StatusIsActive(status) ==
    \A k \in 1..Len(RESOLVED_TERMS) : ~Occurs(RESOLVED_TERMS[k], Lower(status))

\* C8: total is the number of bills, the jurisdiction count the number of
\* distinct state names, the active count the number of bills whose status
\* text holds none of enacted, vetoed, failed, dead in any case, which are the
\* bills of every status but Enacted/Signed, Vetoed and Failed/Dead, and the
\* analyzed count the number of bills with a non-empty analysis_url.
C8_StatsMatchDefinitions ==
    Aggregated =>
        LET input == args.bills
            stats == result[1].stats
            idx == 1..Len(input)
        IN  /\ stats.total_bills = Len(input)
            /\ stats.total_states = Cardinality({input[i].state_name : i \in idx})
            /\ stats.active_count =
                  Cardinality({i \in idx : StatusIsActive(input[i].status)})
            /\ stats.active_count =
                  Cardinality({i \in idx : input[i].status_code \notin RESOLVED_CODES})
            /\ stats.analyzed_count =
                  Cardinality({i \in idx : input[i].analysis_url \notin {NONE, <<>>}})

\* C8 witness: three bills of two jurisdictions, one enacted, one with an
\* analysis link.
C8_Witness ==
    /\ Aggregated
    /\ result[1].stats = [total_bills |-> 3, total_states |-> 2,
                           active_count |-> 2, analyzed_count |-> 1]

-----------------------------------------------------------------------------
(* generate_bill_card_html applied to bills whose texts hold markup characters *)

MARKUP_TEXTS == { <<"T","o","m"," ","&"," ","J","e","r","r","y">>, <<"<","b",">","\"","x","\"","<","/","b",">">>, <<"O","'","N","e","i","l"," ","&","a","m","p",";"," ","C","o">> }

CARD_JURISDICTIONS == {
    [code |-> <<"U","S">>, name |-> <<"F","e","d","e","r","a","l">>],
    [code |-> <<"A","<">>, name |-> <<"R","&","D"," ","\"","X","\"">>] }

CARD_STATUSES == { <<"I","n","t","r","o","d","u","c","e","d">>, <<"E","n","a","c","t","e","d","/","S","i","g","n","e","d">>, <<"<","P","a","s","s","e","d"," ","&"," ","'","s","i","g","n","e","d","'",">">> }

\* last_action_date and status_date
CARD_DATES == {
    <<NONE, NONE>>,
    <<<<"2","0","2","5","-","0","3","-","0","1">>, NONE>>,
    <<<<"\"",">","<","s","c","r","i","p","t",">">>, <<"2","0","2","5","-","0","3","-","0","1">>>>,
    <<<<>>, <<"a","&","b">>>> }

CARD_URLS == { <<"h","t","t","p","s",":","/","/","l",".","c","o","m","/","?","a","=","1","&","b","=","2">>, <<"j","a","v","a","s","c","r","i","p","t",":","\"","x","\"">> }

CARD_ANALYSIS_URLS == { NONE, <<"h","t","t","p","s",":","/","/","c","/","?","q","=","'","x","'","&","y">> }

CARD_SPONSOR_LISTS == {
    <<>>,
    << [name |-> <<"<","i",">","A","l","<","/","i",">">>, party |-> <<>>, role |-> <<>>] >>,
    << [name |-> <<"A","n","n"," ","O","'","N","e","i","l">>, party |-> <<"D","&","R">>, role |-> <<"R","e","p">>],
       [name |-> <<"B">>, party |-> <<"\"","I","\"">>, role |-> <<"R","e","p">>],
       [name |-> <<"C"," ","&"," ","D">>, party |-> <<>>, role |-> <<"R","e","p">>],
       [name |-> <<"E">>, party |-> <<"R">>, role |-> <<"R","e","p">>] >> }

CardBills ==
    {[id |-> 1,
      state_code |-> j.code,
      state_name |-> j.name,
      bill_number |-> number,
      title |-> title,
      description |-> description,
      status |-> status,
      status_code |-> 0,
      status_date |-> dates[2],
      url |-> url,
      last_action |-> <<>>,
      last_action_date |-> dates[1],
      sponsors |-> sponsors,
      analysis_url |-> analysis_url] :
        j \in CARD_JURISDICTIONS, number \in MARKUP_TEXTS, title \in MARKUP_TEXTS,
        description \in MARKUP_TEXTS, status \in CARD_STATUSES, dates \in CARD_DATES,
        url \in CARD_URLS, analysis_url \in CARD_ANALYSIS_URLS,
        sponsors \in CARD_SPONSOR_LISTS}

RenderInit ==
    /\ RunIdle
    /\ call = "generate_bill_card_html"
    /\ \E b \in CardBills : args = [bill |-> b]
    /\ result = NoResult

RenderCard ==
    /\ call = "generate_bill_card_html"
    /\ result = NoResult
    /\ result' = <<generate_bill_card_html(args.bill)>>
    /\ UNCHANGED <<runVars, call, args>>

RenderNext == RenderCard

SpecRender == RenderInit /\ [][RenderNext]_vars

Rendered == call = "generate_bill_card_html" /\ result # NoResult

\* The entities and the character each stands for.
ENTITIES == << <<<<"&","a","m","p",";">>, "&">>, <<<<"&","l","t",";">>, "<">>, <<<<"&","g","t",";">>, ">">>,
               <<<<"&","q","u","o","t",";">>, "\"">>, <<<<"&","#","3","9",";">>, "'">> >>

EntityAt(s, i, e) ==
    /\ i + Len(e) - 1 <= Len(s)
    /\ SubSeq(s, i, i + Len(e) - 1) = e

\* No markup character is in s as itself: every & opens an entity.
NoLiteralMarkup(s) ==
    \A i \in 1..Len(s) :
        /\ s[i] \notin {"<", ">", "\"", "'"}
        /\ s[i] = "&" => \E k \in 1..Len(ENTITIES) : EntityAt(s, i, ENTITIES[k][1])

\* s with every entity read back once, as a browser reads it.
RECURSIVE DecodeFrom(_, _)
DecodeFrom(s, i) ==
    IF i > Len(s) THEN <<>>
    ELSE IF \E k \in 1..Len(ENTITIES) : EntityAt(s, i, ENTITIES[k][1])
         THEN LET k == CHOOSE k \in 1..Len(ENTITIES) : EntityAt(s, i, ENTITIES[k][1])
              IN  <<ENTITIES[k][2]>> \o DecodeFrom(s, i + Len(ENTITIES[k][1]))
         ELSE <<s[i]>> \o DecodeFrom(s, i + 1)

Text(v) == IF v = NONE THEN <<>> ELSE v

\* The value a field part of the card of bill b shows.
ShownValue(b, name, i) ==
    CASE name = "state_name" -> b.state_name
      [] name = "state_code" -> b.state_code
      [] name = "bill_number" -> b.bill_number
      [] name = "title" -> b.title
      [] name = "description" -> b.description
      [] name = "status" -> b.status
      [] name = "date_to_use" -> EffectiveDateKey(b)
      [] name = "last_action_date" -> format_date(EffectiveDateKey(b))
      [] name = "url" -> b.url
      [] name = "analysis_url" -> Text(b.analysis_url)
      [] name = "sponsor_name" -> b.sponsors[i].name
      [] name = "sponsor_party" -> b.sponsors[i].party

\* The values a card must show: the fixed fields, the analysis link when
\* there is one, and the name of each of the first three sponsors with the
\* party when it has one.
ShownFields(b) ==
    {<<f, 0>> : f \in {"state_name", "state_code", "bill_number", "title", "description",
                       "status", "date_to_use", "last_action_date", "url"}}
    \cup {<<"analysis_url", 0>> : x \in {u \in {b.analysis_url} : Text(u) # <<>>}}
    \cup {<<"sponsor_name", i>> : i \in 1..Min(Len(b.sponsors), 3)}
    \cup {<<"sponsor_party", i>> : i \in {k \in 1..Min(Len(b.sponsors), 3) :
                                              Text(b.sponsors[k].party) # <<>>}}

\* C10: every value the card shows is in it escaped: the text put in the card
\* holds none of < > " ' and no & but the one opening an entity, and read back
\* once it is the value itself, so every character was replaced by its entity
\* once; and every field of the bill the card shows is shown this way.
C10_CardFieldsEscapedOnce ==
    Rendered =>
        LET card == result[1]
            b == args.bill
            fields == {i \in 1..Len(card) : card[i].kind = "field"}
        IN  /\ \A i \in fields :
                  /\ NoLiteralMarkup(card[i].text)
                  /\ DecodeFrom(card[i].text, 1) = ShownValue(b, card[i].field, card[i].idx)
            /\ {<<card[i].field, card[i].idx>> : i \in fields} = ShownFields(b)

\* C10 witness: a card of a bill whose title holds an already escaped
\* ampersand and whose description holds angle brackets and quotes, with an
\* analysis link and sponsors.
C10_Witness ==
    /\ Rendered
    /\ args.bill.title = <<"O","'","N","e","i","l"," ","&","a","m","p",";"," ","C","o">>
    /\ args.bill.description = <<"<","b",">","\"","x","\"","<","/","b",">">>
    /\ args.bill.analysis_url # NONE
    /\ Len(args.bill.sponsors) = 4
    /\ \E i \in 1..Len(result[1]) :
          /\ result[1][i].field = "title"
          /\ result[1][i].text = <<"O","&","#","3","9",";","N","e","i","l"," ","&","a","m","p",";","a","m","p",";"," ","C","o">>

=============================================================================
